---- MODULE Spec2Model ----
(***************************************************************************)
(* yt-scribe: the bundle directory, its manifest (_index.md), the record   *)
(* files, and the batch / search / playlist runs that fill a bundle.       *)
(*                                                                         *)
(* Texts are TLA+ strings handled character by character (Len, SubSeq and  *)
(* \o on strings), so that writing a header and reading it back is the     *)
(* computation the Python code performs, not an identity.                  *)
(***************************************************************************)
EXTENDS Integers, Sequences, FiniteSets, TLC

VARIABLES
    dir,            \* the bundle directory: file name -> text content
    clock,          \* the wall clock read by datetime.now(), in seconds
    first_created,  \* created_at written by the call that created the manifest
    last_call,      \* the last generate_index call: its arguments and locals
    touched,        \* a record file was written since the last generate_index call
    pc,             \* position of the current run's main function
    run,            \* the run's command line: kind, output mode, bundle, query, url
    videos,         \* the identifiers the loop iterates over
    i,              \* number of identifiers the loop has finished with
    attempts,       \* identifiers in the order the loop attempted them
    saved_files,    \* the run's saved_files list
    json_files,     \* the run's json_files list (batch only)
    events,         \* JSON lines written to stdout in --jsonl mode
    exit_code,      \* the main function's return value (-1 while running)
    index_calls,    \* number of generate_index calls made by the current run
    bundle_dirs,    \* bundle names create_bundle_dir made a directory for, in call order
    call,           \* a direct call of one of the pure functions: its name and arguments
    result          \* what that call returned (or that it raised)

vars == <<dir, clock, first_created, last_call, touched, pc, run, videos, i,
          attempts, saved_files, json_files, events, exit_code, index_calls,
          bundle_dirs, call, result>>

fnVars == <<call, result>>

runVars == <<pc, run, videos, i, attempts, saved_files, json_files, events,
             exit_code, index_calls, bundle_dirs>>

-----------------------------------------------------------------------------
(* Bounds of the model.                                                    *)

\* The clock stops advancing at MaxClock.
MaxClock == 1
\* A run iterates over at most MaxVideos identifiers.
MaxVideos == 2
\* Record files placed in the directory from outside a run.
MaxForeign == 2
\* A selection has at most MaxTokens comma-separated tokens.
MaxTokens == 2
\* A listing shows 1..MaxResults results.
MaxResults == 3
\* A text given to slugify ends in at most MaxTail freely chosen characters.
MaxTail == 2
\* A header section given to _parse_frontmatter has at most MaxLines lines.
MaxLines == 2

-----------------------------------------------------------------------------
(* Python values.                                                          *)

\* None and a present string: <<>> and <<s>>.
None == <<>>
Some(s) == <<s>>
\* Python truthiness of an Optional[str]: None and "" are falsy.
Truthy(o) == o # None /\ o[1] # ""
\* `a or b` on Optional[str].
Or(a, b) == IF Truthy(a) THEN a ELSE b

Char(s, k) == SubSeq(s, k, k)
Min(S) == CHOOSE m \in S : \A n \in S : m <= n
Max(S) == CHOOSE m \in S : \A n \in S : m >= n

\* Characters in code-point order; Ord gives a character's rank.
CodeOrder == "\n \"#'()-.0123456789:>ABCDEFGHIJKLMNOPQRSTUVWXYZ[]_abcdefghijklmnopqrstuvwxyz|"
Ord(c) == LET P == {k \in 1..Len(CodeOrder) : Char(CodeOrder, k) = c}
          IN IF P = {} THEN 0 ELSE Min(P)

\* str.__lt__: lexicographic by code point.
StrLess(a, b) ==
    LET n == IF Len(a) < Len(b) THEN Len(a) ELSE Len(b)
        D == {k \in 1..n : Char(a, k) # Char(b, k)}
    IN IF D = {} THEN Len(a) < Len(b)
       ELSE Ord(Char(a, Min(D))) < Ord(Char(b, Min(D)))

StartsWith(s, p) == Len(p) <= Len(s) /\ SubSeq(s, 1, Len(p)) = p
EndsWith(s, p) == Len(p) <= Len(s) /\ SubSeq(s, Len(s) - Len(p) + 1, Len(s)) = p

\* str.find(sub, start) with 1-based positions; 0 when absent.
Find(s, sub, from) ==
    LET P == {k \in from..(Len(s) - Len(sub) + 1) : SubSeq(s, k, k + Len(sub) - 1) = sub}
    IN IF P = {} THEN 0 ELSE Min(P)

\* str.rfind(sub); 0 when absent.
RECURSIVE RFindFrom(_, _, _)
RFindFrom(s, sub, from) ==
    IF from < 1 THEN 0
    ELSE IF SubSeq(s, from, from + Len(sub) - 1) = sub THEN from
    ELSE RFindFrom(s, sub, from - 1)

RFind(s, sub) == RFindFrom(s, sub, Len(s) - Len(sub) + 1)

\* str.split(sep, maxsplit); maxsplit < 0 means no limit.
RECURSIVE SplitMax(_, _, _)
SplitMax(s, sep, maxsplit) ==
    LET k == Find(s, sep, 1)
    IN IF maxsplit = 0 \/ k = 0 THEN <<s>>
       ELSE <<SubSeq(s, 1, k - 1)>>
            \o SplitMax(SubSeq(s, k + Len(sep), Len(s)), sep, maxsplit - 1)

Split(s, sep) == SplitMax(s, sep, -1)

\* str.splitlines() over texts whose only line boundary is "\n".
SplitLines(s) ==
    LET parts == Split(s, "\n")
    IN IF parts[Len(parts)] = "" THEN SubSeq(parts, 1, Len(parts) - 1) ELSE parts

\* sep.join(lines)
RECURSIVE Join(_, _)
Join(lines, sep) ==
    IF lines = <<>> THEN ""
    ELSE IF Len(lines) = 1 THEN lines[1]
    ELSE lines[1] \o sep \o Join(Tail(lines), sep)

\* str.lstrip(chars), str.rstrip(chars), str.strip(chars): chars is a set of characters.
RECURSIVE LStripSet(_, _)
LStripSet(s, chars) ==
    IF Len(s) = 0 \/ Char(s, 1) \notin chars THEN s
    ELSE LStripSet(SubSeq(s, 2, Len(s)), chars)

RECURSIVE RStripSet(_, _)
RStripSet(s, chars) ==
    IF Len(s) = 0 \/ Char(s, Len(s)) \notin chars THEN s
    ELSE RStripSet(SubSeq(s, 1, Len(s) - 1), chars)

StripSet(s, chars) == RStripSet(LStripSet(s, chars), chars)

Whitespace == {" ", "\n"}
Strip(s) == StripSet(s, Whitespace)

-----------------------------------------------------------------------------
(* bundle.py                                                               *)

\* dict.get(key, default)
Get(fm, key, default) == IF key \in DOMAIN fm THEN fm[key] ELSE default
EmptyDict == [k \in {} |-> ""]

\* A frontmatter loop in which the first occurrence of a key wins.
ParseLineFirstWins(fm, line) ==
    IF Find(line, ": ", 1) = 0 THEN fm
    ELSE LET kv == SplitMax(line, ": ", 1)
             val == StripSet(StripSet(Strip(kv[2]), {"\""}), {"'"})
             key == Strip(kv[1])
         IN IF key \in DOMAIN fm THEN fm
            ELSE [k \in (DOMAIN fm) \cup {key} |-> IF k = key THEN val ELSE fm[k]]

\* One line of the frontmatter loop: skip it without ": ", else fm[key] = val.
ParseLine(fm, line) ==
    IF Find(line, ": ", 1) = 0 THEN fm
    ELSE LET kv == SplitMax(line, ": ", 1)
             val == StripSet(StripSet(Strip(kv[2]), {"\""}), {"'"})
             key == Strip(kv[1])
         IN [k \in (DOMAIN fm) \cup {key} |-> IF k = key THEN val ELSE fm[k]]

RECURSIVE ParseLines(_, _)
ParseLines(fm, lines) ==
    IF lines = <<>> THEN fm ELSE ParseLines(ParseLine(fm, lines[1]), Tail(lines))

\* _parse_frontmatter
ParseFrontmatter(text) ==
    LET parts == SplitMax(text, "---", 2)
    IN IF Len(parts) < 3 THEN EmptyDict
       ELSE ParseLines(EmptyDict, SplitLines(Strip(parts[2])))

IndexName == "_index.md"

\* Path.stem of a file name: the name without its last suffix.
Stem(name) ==
    LET k == RFind(name, ".")
    IN IF k <= 1 THEN name ELSE SubSeq(name, 1, k - 1)

\* sorted(...) of a set of file names.
RECURSIVE SortedNames(_)
SortedNames(S) ==
    IF S = {} THEN <<>>
    ELSE LET m == CHOOSE a \in S : \A b \in S \ {a} : StrLess(a, b)
         IN <<m>> \o SortedNames(S \ {m})

\* bundle_dir.glob("*.md")
GlobMd(d) == {n \in DOMAIN d : EndsWith(n, ".md")}

\* An entry (title, video_id, filepath); the path is kept as its file name.
Entry(title, video_id, name) == [title |-> title, video_id |-> video_id, name |-> name]

\* An entry whose title is empty when the frontmatter has no title.
EntryOfNoStem(d, name) ==
    LET fm == ParseFrontmatter(d[name])
    IN Entry(Get(fm, "title", ""), Get(fm, "video_id", ""), name)

EntryOf(d, name) ==
    LET fm == ParseFrontmatter(d[name])
    IN Entry(Get(fm, "title", Stem(name)), Get(fm, "video_id", ""), name)

\* A read_bundle_entries that does not skip the manifest.
ReadBundleEntriesAll(d) ==
    LET names == SortedNames(GlobMd(d))
    IN [k \in 1..Len(names) |-> EntryOf(d, names[k])]

\* read_bundle_entries
ReadBundleEntries(d) ==
    LET names == SortedNames(GlobMd(d) \ {IndexName})
    IN [k \in 1..Len(names) |-> EntryOf(d, names[k])]

\* _read_index_metadata: None (<<>>) without a manifest, else <<dict>>.
ReadIndexMetadata(d) ==
    IF IndexName \notin DOMAIN d THEN <<>>
    ELSE LET fm == ParseFrontmatter(d[IndexName])
         IN << [bundle |-> Get(fm, "bundle", ""),
                query |-> Get(fm, "query", ""),
                source_url |-> IF "source_url" \in DOMAIN fm THEN Some(fm["source_url"]) ELSE None,
                created_at |-> IF "created_at" \in DOMAIN fm THEN Some(fm["created_at"]) ELSE None] >>

\* datetime.now(timezone.utc).strftime("%Y-%m-%d %H:%M:%S UTC")
Strftime(t) == "2024-01-01 00:00:0" \o ToString(t) \o " UTC"

\* A generate_index in which the caller's non-empty values replace the recorded ones.
EffectiveMetaCallerWins(existing, bundle_name, query, source_url) ==
    IF existing # <<>>
    THEN [bundle |-> IF bundle_name # "" THEN bundle_name ELSE existing[1].bundle,
          query |-> IF query # "" THEN query ELSE existing[1].query,
          source_url |-> Or(source_url, existing[1].source_url),
          original_created_at |-> existing[1].created_at]
    ELSE [bundle |-> bundle_name, query |-> query, source_url |-> source_url,
          original_created_at |-> None]

\* generate_index lines 110-118: metadata of an existing manifest wins.
EffectiveMeta(existing, bundle_name, query, source_url) ==
    IF existing # <<>>
    THEN [bundle |-> IF existing[1].bundle # "" THEN existing[1].bundle ELSE bundle_name,
          query |-> IF existing[1].query # "" THEN existing[1].query ELSE query,
          source_url |-> Or(existing[1].source_url, source_url),
          original_created_at |-> existing[1].created_at]
    ELSE [bundle |-> bundle_name, query |-> query, source_url |-> source_url,
          original_created_at |-> None]

\* A generate_index that lists saved_files and never the scan.
AllEntriesSaved(scan, saved) == saved

\* A generate_index that trusts saved_files and scans only when it is empty.
AllEntriesSavedFirst(scan, saved) == IF Len(saved) = 0 THEN scan ELSE saved

\* A generate_index that appends saved_files to the scan.
AllEntriesMerged(scan, saved) == scan \o saved

\* generate_index lines 120-125: the scan, or saved_files if the scan found nothing.
AllEntries(scan, saved) == IF Len(scan) = 0 THEN saved ELSE scan

\* generate_index line 128: `original_created_at or datetime.now(...)`.
CreatedAt(original_created_at, t) ==
    IF Truthy(original_created_at) THEN original_created_at[1] ELSE Strftime(t)

\* generate_index lines 162-165: one table row.
RowLine(n, e) ==
    "| " \o ToString(n) \o " | [" \o e.title \o "](./" \o e.name \o ") | [YouTube]("
    \o "https://youtube.com/watch?v=" \o e.video_id \o ") |"

\* A generate_index whose table leaves out the entries without a video id, under
\* the same counts.
IndexLinesSkipNoId(m, now, entries) ==
    LET count == Len(entries)
        listed == SelectSeq(entries, LAMBDA e : e.video_id # "")
    IN << "---",
          "bundle: \"" \o m.bundle \o "\"",
          "query: \"" \o m.query \o "\"",
          "count: " \o ToString(count),
          "created_at: \"" \o now \o "\"", "---", "", "# " \o m.bundle, "",
          "> Search query: \"" \o m.query \o "\"",
          "> " \o ToString(count) \o " transcripts",
          "", "## Contents", "", "| # | Title | Video |", "|---|-------|-------|" >>
       \o [n \in 1..Len(listed) |-> RowLine(n, listed[n])]
       \o << "" >>

\* generate_index lines 127-167: the lines of the manifest.
IndexLines(m, now, entries) ==
    LET count == Len(entries)
    IN << "---",
          "bundle: \"" \o m.bundle \o "\"",
          "query: \"" \o m.query \o "\"",
          "count: " \o ToString(count),
          "created_at: \"" \o now \o "\"" >>
       \o (IF Truthy(m.source_url)
           THEN << "source_url: \"" \o m.source_url[1] \o "\"" >> ELSE <<>>)
       \o << "---", "", "# " \o m.bundle, "" >>
       \o (IF Truthy(m.source_url)
           THEN << "> Source: [" \o m.query \o "](" \o m.source_url[1] \o ")" >>
           ELSE << "> Search query: \"" \o m.query \o "\"" >>)
       \o << "> " \o ToString(count) \o " transcripts",
             "", "## Contents", "", "| # | Title | Video |", "|---|-------|-------|" >>
       \o [n \in 1..count |-> RowLine(n, entries[n])]
       \o << "" >>

\* generate_index: the values it interpolates and the text it writes.
GenerateIndex(d, bundle_name, query, saved, source_url, t) ==
    LET existing == ReadIndexMetadata(d)
        m == EffectiveMeta(existing, bundle_name, query, source_url)
        entries == AllEntries(ReadBundleEntries(d), saved)
        now == CreatedAt(m.original_created_at, t)
    IN [existing |-> existing, created_at |-> now,
        text |-> Join(IndexLines(m, now, entries), "\n")]

\* Path.write_text: create or overwrite one file of the directory.
WriteText(d, name, text) ==
    [n \in (DOMAIN d) \cup {name} |-> IF n = name THEN text ELSE d[n]]

\* The record files of a directory: everything but the manifest.
RecordFiles(d) == [n \in (DOMAIN d) \ {IndexName} |-> d[n]]

HasIndex(d) == IndexName \in DOMAIN d

\* The effect of one generate_index call on the directory, with its history record.
IndexStep(bundle_name, query, saved, source_url) ==
    LET g == GenerateIndex(dir, bundle_name, query, saved, source_url, clock)
    IN /\ dir' = WriteText(dir, IndexName, g.text)
       /\ first_created' = IF HasIndex(dir) THEN first_created ELSE Some(g.created_at)
       /\ touched' = FALSE
       /\ last_call' = << [bundle_name |-> bundle_name, query |-> query, saved |-> saved,
                           source_url |-> source_url,
                           existing |-> g.existing,
                           created_at |-> g.created_at] >>

-----------------------------------------------------------------------------
(* The inputs the model draws from.                                        *)

\* Bundle names, queries and source URLs given by callers.
BundleNames == {"b", "c---d"}
Queries == {"", "\"x\""}
SourceUrls == {None, Some("u")}

\* saved_files lists given to generate_index by a direct caller.
SavedLists == { <<>>, << Entry("Z", "vz", "z.md"), Entry("Y", "vy", "y.md") >> }

\* Record files that reach the directory from outside a run.
ForeignFiles ==
    { [name |-> "a.md", text |-> "---\ntitle: \"A\"\nvideo_id: \"x\"\n---\nbody"],
      [name |-> "B.md", text |-> "notes"],
      [name |-> "c.md", text |-> "---\nvideo_id: 'y'\n---\n"] }

ForeignNames == {f.name : f \in ForeignFiles}

-----------------------------------------------------------------------------
(* The directory and its manifest.                                         *)

\* No pure function has been called directly.
NoCall == [fn |-> "none"]

NoRun == [kind |-> "none", mode |-> "human", bundle |-> "", query |-> "", url |-> None]

\* The program's variables before anything ran.
InitProgram ==
    /\ dir = [n \in {} |-> ""]
    /\ clock = 0
    /\ first_created = None
    /\ last_call = <<>>
    /\ touched = FALSE
    /\ pc = "idle"
    /\ run = NoRun
    /\ videos = <<>>
    /\ i = 0
    /\ attempts = <<>>
    /\ saved_files = <<>>
    /\ json_files = <<>>
    /\ events = <<>>
    /\ exit_code = -1
    /\ index_calls = 0
    /\ bundle_dirs = <<>>

Init == InitProgram /\ call = NoCall /\ result = NoCall

\* Time passes.
Tick ==
    /\ clock < MaxClock
    /\ clock' = clock + 1
    /\ UNCHANGED <<dir, first_created, last_call, touched, runVars, fnVars>>

\* A record file appears in the directory (a single-video fetch with -o, or a
\* hand-written file).
PutRecordFile(f) ==
    /\ pc = "idle"
    /\ f.name \notin DOMAIN dir
    /\ Cardinality((DOMAIN dir) \cap ForeignNames) < MaxForeign
    /\ dir' = WriteText(dir, f.name, f.text)
    /\ touched' = TRUE
    /\ UNCHANGED <<clock, first_created, last_call, runVars, fnVars>>

\* A caller invokes generate_index on the directory.
GenerateIndexCall(bundle_name, query, saved, source_url) ==
    /\ pc = "idle"
    /\ IndexStep(bundle_name, query, saved, source_url)
    /\ UNCHANGED <<clock, runVars, fnVars>>

\* The manifest header: every caller-supplied bundle name, query and source URL,
\* over a directory that holds at most the record file a.md.
NextMeta ==
    \/ Tick
    \/ \E f \in {g \in ForeignFiles : g.name = "a.md"} : PutRecordFile(f)
    \/ \E b \in BundleNames, q \in Queries, u \in SourceUrls :
          GenerateIndexCall(b, q, <<>>, u)

SpecMeta == Init /\ [][NextMeta]_vars

\* The manifest entries: every directory content and saved_files list, under one
\* bundle name and query.
NextEntries ==
    \/ Tick
    \/ \E f \in ForeignFiles : PutRecordFile(f)
    \/ \E s \in SavedLists : GenerateIndexCall("b", "q", s, None)

SpecEntries == Init /\ [][NextEntries]_vars

-----------------------------------------------------------------------------
(* url_parser.py                                                           *)

CharsOf(s) == {Char(s, k) : k \in 1..Len(s)}
LowerChars == CharsOf("abcdefghijklmnopqrstuvwxyz")
UpperChars == CharsOf("ABCDEFGHIJKLMNOPQRSTUVWXYZ")
Digits == CharsOf("0123456789")
\* str.isalnum over the ASCII characters of the model.
AlnumChars == LowerChars \cup UpperChars \cup Digits

\* VIDEO_ID_RE: ^[a-zA-Z0-9_-]{11}$
VideoIdLen == 11
IsVideoId(s) ==
    Len(s) = VideoIdLen /\ \A k \in 1..Len(s) : Char(s, k) \in AlnumChars \cup {"_", "-"}

\* urlparse(url): hostname, path and query of "scheme://host/path?query"; a text
\* without "://" has no hostname and is all path.
UrlParse(url) ==
    LET k == Find(url, "://", 1)
        rest == IF k = 0 THEN url ELSE SubSeq(url, k + 3, Len(url))
        sl == Find(rest, "/", 1)
        qm == Find(rest, "?", 1)
        hostEnd == IF k = 0 THEN 0
                   ELSE IF sl # 0 /\ (qm = 0 \/ sl < qm) THEN sl - 1
                   ELSE IF qm # 0 THEN qm - 1 ELSE Len(rest)
        pathEnd == IF qm # 0 THEN qm - 1 ELSE Len(rest)
    IN [hostname |-> IF k = 0 THEN None ELSE Some(SubSeq(rest, 1, hostEnd)),
        path |-> SubSeq(rest, hostEnd + 1, pathEnd),
        query |-> IF qm = 0 THEN "" ELSE SubSeq(rest, qm + 1, Len(rest))]

\* parse_qs(query).get("v")[0]: the first non-blank value of parameter v, or None.
QueryV(query) ==
    LET pairs == Split(query, "&")
        hits == {k \in 1..Len(pairs) : StartsWith(pairs[k], "v=") /\ Len(pairs[k]) > 2}
    IN IF hits = {} THEN None ELSE Some(SubSeq(pairs[Min(hits)], 3, Len(pairs[Min(hits)])))

\* PATH_PATTERNS: ^/(?:embed|shorts|live|v)/([a-zA-Z0-9_-]{11})
PathId(path) ==
    LET pre == {q \in {"/embed/", "/shorts/", "/live/", "/v/"} :
                   /\ StartsWith(path, q)
                   /\ IsVideoId(SubSeq(path, Len(q) + 1, Len(q) + VideoIdLen))}
    IN IF pre = {} THEN None
       ELSE LET q == CHOOSE q \in pre : TRUE
            IN Some(SubSeq(path, Len(q) + 1, Len(q) + VideoIdLen))

\* extract_video_id: <<id>>, or <<>> when it raises ValueError.
ExtractVideoId(url_or_id) ==
    LET s == Strip(url_or_id)
        parsed == UrlParse(s)
        yt == parsed.hostname \in {Some("www.youtube.com"), Some("youtube.com"),
                                    Some("m.youtube.com")}
        v == QueryV(parsed.query)
    IN IF IsVideoId(s) THEN Some(s)
       ELSE IF yt /\ parsed.path = "/watch" /\ v # None /\ IsVideoId(v[1]) THEN v
       ELSE IF yt /\ PathId(parsed.path) # None THEN PathId(parsed.path)
       ELSE IF parsed.hostname = Some("youtu.be")
               /\ IsVideoId(LStripSet(parsed.path, {"/"}))
            THEN Some(LStripSet(parsed.path, {"/"}))
       ELSE None

ExtractError(url_or_id) == "Could not extract video ID from: " \o Strip(url_or_id)

-----------------------------------------------------------------------------
(* formatter.py                                                            *)

\* f"{n:02d}"
Pad2(n) == IF n < 10 THEN "0" \o ToString(n) ELSE ToString(n)

\* _format_timestamp
FormatTimestamp(seconds) ==
    LET hours == seconds \div 3600
        minutes == (seconds % 3600) \div 60
        secs == (seconds % 3600) % 60
    IN IF hours > 0 THEN ToString(hours) \o ":" \o Pad2(minutes) \o ":" \o Pad2(secs)
       ELSE ToString(minutes) \o ":" \o Pad2(secs)

\* _format_duration
FormatDuration(seconds) ==
    LET hours == seconds \div 3600
        minutes == (seconds % 3600) \div 60
        secs == (seconds % 3600) % 60
    IN Join((IF hours # 0 THEN <<ToString(hours) \o "h">> ELSE <<>>)
            \o (IF minutes # 0 THEN <<ToString(minutes) \o "m">> ELSE <<>>)
            \o <<ToString(secs) \o "s">>, " ")

\* TranscriptResult.duration_seconds
TranscriptDuration(tr) ==
    IF tr.segments = <<>> THEN 0
    ELSE tr.segments[Len(tr.segments)].start + tr.segments[Len(tr.segments)].duration

TranscriptType(tr) == IF tr.is_generated THEN "auto-generated" ELSE "manual"

\* format_markdown; t is the clock read for fetched_at.
FormatMarkdown(meta, tr, t) ==
    LET duration == IF meta.duration_seconds # None /\ meta.duration_seconds[1] # 0
                    THEN meta.duration_seconds[1] ELSE TranscriptDuration(tr)
    IN Join(
        << "---",
           "title: \"" \o meta.title \o "\"",
           "channel: \"" \o meta.channel \o "\"",
           "video_id: \"" \o meta.video_id \o "\"",
           "url: \"https://www.youtube.com/watch?v=" \o meta.video_id \o "\"" >>
        \o (IF duration # 0
            THEN << "duration: \"" \o FormatDuration(duration) \o "\"" >> ELSE <<>>)
        \o (IF Truthy(meta.upload_date)
            THEN << "upload_date: \"" \o meta.upload_date[1] \o "\"" >> ELSE <<>>)
        \o << "language: \"" \o tr.language \o "\"",
              "transcript_type: \"" \o TranscriptType(tr) \o "\"",
              "fetched_at: \"" \o Strftime(t) \o "\"",
              "---",
              "",
              "# " \o meta.title,
              "",
              "**Channel:** [" \o meta.channel \o "](" \o meta.channel_url \o ")" >>
        \o (IF duration # 0
            THEN << "**Duration:** " \o FormatDuration(duration) >> ELSE <<>>)
        \o (IF Truthy(meta.upload_date)
            THEN << "**Uploaded:** " \o meta.upload_date[1] >> ELSE <<>>)
        \o << "**Language:** " \o tr.language \o " (" \o TranscriptType(tr) \o ")",
              "", "---", "", "## Transcript", "" >>
        \o [k \in 1..(2 * Len(tr.segments)) |->
              IF k % 2 = 1
              THEN "**[" \o FormatTimestamp(tr.segments[(k + 1) \div 2].start) \o "]** "
                   \o tr.segments[(k + 1) \div 2].text
              ELSE ""],
        "\n")

\* The per-character map of generate_filename: keep alphanumerics, " " and "-".
RECURSIVE SafeChars(_)
SafeChars(title) ==
    IF Len(title) = 0 THEN ""
    ELSE (IF Char(title, 1) \in AlnumChars \cup {" ", "-"} THEN Char(title, 1) ELSE "_")
         \o SafeChars(SubSeq(title, 2, Len(title)))

\* str.split(): the non-empty runs between whitespace.
SplitWs(s) ==
    LET parts == Split(s, " ")
    IN [k \in 1..Cardinality({n \in 1..Len(parts) : parts[n] # ""}) |->
          parts[CHOOSE n \in 1..Len(parts) :
                   /\ parts[n] # ""
                   /\ Cardinality({m \in 1..n : parts[m] # ""}) = k]]

FilenameTitleMax == 80

\* generate_filename
GenerateFilename(meta) ==
    LET safe == Join(SplitWs(SafeChars(meta.title)), "_")
        cut == IF Len(safe) > FilenameTitleMax THEN SubSeq(safe, 1, FilenameTitleMax) ELSE safe
    IN cut \o "_" \o meta.video_id

-----------------------------------------------------------------------------
(* metadata.py, transcript.py: the providers, as the run sees them.        *)

\* Identifiers given on the batch command line.
VideoArgs == {"https://youtu.be/abcdefghijk", "bad"}
\* Video ids listed by a search or a playlist.
ResultIds == {"dQw4w9WgXcQ"}

\* What the providers answer for a video id when they answer.
TitleOf(video_id) == IF video_id = "dQw4w9WgXcQ" THEN "Hi: 1/2" ELSE "Yo"

\* fetch_metadata_ytdlp's VideoMetadata
YtdlpMeta(video_id) ==
    [video_id |-> video_id, title |-> TitleOf(video_id), channel |-> "Ch",
     channel_url |-> "http://c", duration_seconds |-> <<212>>,
     upload_date |-> Some("2009-10-25")]

\* fetch_metadata_oembed's VideoMetadata: no duration, no upload date.
OembedMeta(video_id) ==
    [video_id |-> video_id, title |-> TitleOf(video_id), channel |-> "Ch",
     channel_url |-> "http://c", duration_seconds |-> None, upload_date |-> None]

\* fetch_metadata(video_id, enrich): <<meta>>, or <<>> when MetadataFetchError is
\* raised; ytdlp and oembed say whether each provider answers.
FetchMetadata(video_id, enrich, ytdlp, oembed) ==
    IF enrich /\ ytdlp THEN <<YtdlpMeta(video_id)>>
    ELSE IF oembed THEN <<OembedMeta(video_id)>>
    ELSE <<>>

MetadataError == "oEmbed request failed: timeout"

\* fetch_transcript's TranscriptResult
Transcript(video_id) ==
    [video_id |-> video_id, language |-> "English", language_code |-> "en",
     is_generated |-> FALSE,
     segments |-> << [text |-> "hi", start |-> 0, duration |-> 2] >>]

TranscriptError(video_id) == "Transcripts are disabled for video " \o video_id
WriteError == "[Errno 28] No space left on device"

\* What the world does to one item: which provider answers, whether a transcript
\* exists, whether the record file can be written.
ItemOutcomes ==
    { [ytdlp |-> TRUE,  oembed |-> TRUE,  transcript |-> TRUE,  write |-> TRUE],
      [ytdlp |-> FALSE, oembed |-> TRUE,  transcript |-> TRUE,  write |-> TRUE],
      [ytdlp |-> FALSE, oembed |-> FALSE, transcript |-> TRUE,  write |-> TRUE],
      [ytdlp |-> TRUE,  oembed |-> TRUE,  transcript |-> FALSE, write |-> TRUE],
      [ytdlp |-> TRUE,  oembed |-> TRUE,  transcript |-> TRUE,  write |-> FALSE] }

-----------------------------------------------------------------------------
(* cli.py: the batch, search and playlist runs.                            *)

\* The try block from the point where metadata and transcript are fetched: the
\* record file written, or the error raised by the write.
SaveItem(meta, transcript, o, t) ==
    IF ~o.write THEN [saved |-> FALSE, error |-> WriteError]
    ELSE [saved |-> TRUE, title |-> meta.title, video_id |-> meta.video_id,
          name |-> GenerateFilename(meta) \o ".md",
          content |-> FormatMarkdown(meta, transcript, t)]

\* `if metadata.duration_seconds is None: metadata.duration_seconds = ...`
WithDuration(meta, transcript) ==
    IF meta.duration_seconds = None
    THEN [meta EXCEPT !.duration_seconds = <<TranscriptDuration(transcript)>>]
    ELSE meta

\* The try block after the identifier resolved to video_id.
FetchItem(video_id, o, t) ==
    IF ~(o.ytdlp \/ o.oembed) THEN [saved |-> FALSE, error |-> MetadataError]
    ELSE IF ~o.transcript THEN [saved |-> FALSE, error |-> TranscriptError(video_id)]
    ELSE CHOOSE r \in { SaveItem(WithDuration(meta, Transcript(video_id)),
                                  Transcript(video_id), o, t) :
                         meta \in { FetchMetadata(video_id, TRUE, o.ytdlp, o.oembed)[1] } } :
             TRUE

\* The body of the loop's try block for one item: the record file it writes, or
\* the error it raises.  kind "batch" resolves the identifier first; a search or
\* playlist item already is a video id.
ProcessItem(kind, video_arg, o, t) ==
    CHOOSE r \in { IF resolved = None
                   THEN [saved |-> FALSE, error |-> ExtractError(video_arg)]
                   ELSE FetchItem(resolved[1], o, t) :
                   resolved \in { IF kind = "batch" THEN ExtractVideoId(video_arg)
                                  ELSE Some(video_arg) } } :
        TRUE

\* Whether the world lets the item through: the identifier resolves, a provider
\* answers, a transcript exists and the file can be written.
ItemSucceeds(kind, video_arg, o) ==
    /\ kind = "batch" => ExtractVideoId(video_arg) # None
    /\ o.ytdlp \/ o.oembed
    /\ o.transcript
    /\ o.write

\* json_files.append(...) of the saved branch and of the two except branches.
SavedRecord(r) ==
    [video_id |-> r.video_id, title |-> Some(r.title), path |-> Some(r.name),
     status |-> "saved", error |-> None]
SkippedRecord(video_arg, error) ==
    [video_id |-> video_arg, title |-> None, path |-> None,
     status |-> "skipped", error |-> Some(error)]

\* A loop whose except branches record nothing in json_files.
JsonFilesAfterSavedOnly(jf, video_arg, r) ==
    IF r.saved THEN Append(jf, SavedRecord(r)) ELSE jf

\* json_files after one item.
JsonFilesAfter(jf, video_arg, r) ==
    Append(jf, IF r.saved THEN SavedRecord(r) ELSE SkippedRecord(video_arg, r.error))

\* A progress event that counts the items from 0.
ProgressEventFromZero(n, total, video_arg, r) ==
    IF r.saved
    THEN [event |-> "progress", index |-> n - 1, total |-> total, video_id |-> r.video_id,
          status |-> "saved"]
    ELSE [event |-> "progress", index |-> n - 1, total |-> total, video_id |-> video_arg,
          status |-> "skipped"]

\* The --jsonl progress event of one item.
ProgressEvent(n, total, video_arg, r) ==
    IF r.saved
    THEN [event |-> "progress", index |-> n, total |-> total, video_id |-> r.video_id,
          status |-> "saved"]
    ELSE [event |-> "progress", index |-> n, total |-> total, video_id |-> video_arg,
          status |-> "skipped"]

\* A loop that a failed item ends: nothing after it is attempted.
AfterItemAbort(n, total, saved) == IF saved THEN n ELSE total

\* A loop that leaves out the item after a saved one.
AfterItemSkipNext(n, total, saved) == IF saved THEN Min({n + 1, total}) ELSE n

\* The loop position after item n: `continue` in the except branches, the end of
\* the body otherwise.
AfterItem(n, total, saved) == n

\* batch_main up to the loop, with a non-empty identifier list.
StartBatch(vs, mode) ==
    /\ pc = "idle"
    /\ vs # <<>>
    /\ run' = [kind |-> "batch", mode |-> mode, bundle |-> "b",
               query |-> "batch import", url |-> None]
    /\ videos' = vs
    /\ events' = IF mode = "jsonl"
                 THEN << [event |-> "start", total |-> Len(vs)] >> ELSE <<>>
    /\ bundle_dirs' = Append(bundle_dirs, "b")
    /\ pc' = "loop"
    /\ UNCHANGED <<fnVars, dir, clock, first_created, last_call, touched, i, attempts,
                   saved_files, json_files, exit_code, index_calls>>

\* batch_main with no identifier: "Error: No videos specified", return 1.
StartBatchEmpty ==
    /\ pc = "idle"
    /\ run' = [kind |-> "batch", mode |-> "human", bundle |-> "b",
               query |-> "batch import", url |-> None]
    /\ pc' = "done"
    /\ exit_code' = 1
    /\ UNCHANGED <<fnVars, dir, clock, first_created, last_call, touched, videos, i, attempts,
                   saved_files, json_files, events, index_calls, bundle_dirs>>

\* search_main / playlist_main up to the loop: the results were listed and the
\* user's selection was accepted; ids are the selected results in order.
StartInteractive(kind, ids) ==
    /\ pc = "idle"
    /\ ids # <<>>
    /\ run' = IF kind = "search"
              THEN [kind |-> kind, mode |-> "human", bundle |-> "b", query |-> "q",
                    url |-> None]
              ELSE [kind |-> kind, mode |-> "human", bundle |-> "b", query |-> "PL",
                    url |-> Some("u")]
    /\ videos' = ids
    /\ bundle_dirs' = Append(bundle_dirs, "b")
    /\ pc' = "loop"
    /\ UNCHANGED <<fnVars, dir, clock, first_created, last_call, touched, i, attempts,
                   saved_files, json_files, events, exit_code, index_calls>>

\* search_main / playlist_main with --json: the listing is printed, return 0.
ListOnly(kind) ==
    /\ pc = "idle"
    /\ run' = [kind |-> kind, mode |-> "json", bundle |-> "b", query |-> "q",
               url |-> None]
    /\ pc' = "done"
    /\ exit_code' = 0
    /\ UNCHANGED <<fnVars, dir, clock, first_created, last_call, touched, videos, i, attempts,
                   saved_files, json_files, events, index_calls, bundle_dirs>>

\* One iteration of the loop, the except branches included.
Iterate(o) ==
    /\ pc = "loop"
    /\ i < Len(videos)
    /\ \E video_arg \in {videos[i + 1]} :
         \E r \in {ProcessItem(run.kind, video_arg, o, clock)} :
          /\ attempts' = Append(attempts, [arg |-> video_arg,
                                          ok |-> ItemSucceeds(run.kind, video_arg, o)])
          /\ dir' = IF r.saved THEN WriteText(dir, r.name, r.content) ELSE dir
          /\ touched' = (touched \/ r.saved)
          /\ saved_files' = IF r.saved
                            THEN Append(saved_files, Entry(r.title, r.video_id, r.name))
                            ELSE saved_files
          /\ json_files' = IF run.kind = "batch"
                           THEN JsonFilesAfter(json_files, video_arg, r) ELSE json_files
          /\ events' = IF run.mode = "jsonl"
                       THEN Append(events, ProgressEvent(i + 1, Len(videos), video_arg, r))
                       ELSE events
          /\ i' = AfterItem(i + 1, Len(videos), r.saved)
    /\ UNCHANGED <<fnVars, clock, first_created, last_call, pc, run, videos, exit_code, index_calls, bundle_dirs>>

\* KeyboardInterrupt during the loop: "Aborted.", return 130.
Interrupt ==
    /\ pc = "loop"
    /\ pc' = "done"
    /\ exit_code' = 130
    /\ UNCHANGED <<fnVars, dir, clock, first_created, last_call, touched, run, videos, i,
                   attempts, saved_files, json_files, events, index_calls, bundle_dirs>>

\* A run that calls generate_index whatever was saved.
ShouldIndexAlways(saved, total) == TRUE

\* A run that writes the manifest only when every item was saved.
ShouldIndexAllSaved(saved, total) == Len(saved) = total

\* `if saved_files:` before generate_index (batch), `if not saved_files: return 1`
\* (search, playlist).
ShouldIndex(saved, total) == saved # <<>>

\* The return value after the loop.
ExitCode(kind, mode, saved) ==
    IF kind = "batch" /\ mode \in {"json", "jsonl"} THEN 0
    ELSE IF saved = <<>> THEN 1
    ELSE 0

\* What the run prints on stdout after the loop in a JSON mode.
FinalEvents(ev, mode, total, saved, jf) ==
    IF mode = "jsonl"
    THEN Append(ev, [event |-> "complete", total_saved |-> Len(saved),
                     total_skipped |-> total - Len(saved)])
    ELSE IF mode = "json"
    THEN Append(ev, [event |-> "json", total_requested |-> total,
                     total_saved |-> Len(saved), total_skipped |-> total - Len(saved),
                     files |-> jf])
    ELSE ev

\* After the loop: the manifest, the output, the return value.
Finish ==
    /\ pc = "loop"
    /\ i >= Len(videos)
    /\ IF ShouldIndex(saved_files, Len(videos))
       THEN /\ IndexStep(run.bundle, run.query, saved_files, run.url)
            /\ index_calls' = index_calls + 1
       ELSE UNCHANGED <<dir, first_created, last_call, touched, index_calls>>
    /\ events' = IF run.kind = "batch"
                 THEN FinalEvents(events, run.mode, Len(videos), saved_files, json_files)
                 ELSE events
    /\ exit_code' = ExitCode(run.kind, run.mode, saved_files)
    /\ pc' = "done"
    /\ UNCHANGED <<fnVars, clock, run, videos, i, attempts, saved_files, json_files,
                   bundle_dirs>>

\* Sequences over S of length 1..n.
SeqsUpTo(S, n) == UNION {[1..k -> S] : k \in 1..n}

\* Runs into a directory that is empty or holds an earlier manifest.
NextRun ==
    \/ Tick
    \/ GenerateIndexCall("b", "q", <<>>, None)
    \/ \E vs \in SeqsUpTo(VideoArgs, MaxVideos), mode \in {"human", "json", "jsonl"} :
          StartBatch(vs, mode)
    \/ StartBatchEmpty
    \/ \E kind \in {"search", "playlist"}, ids \in SeqsUpTo(ResultIds, MaxVideos) :
          StartInteractive(kind, ids)
    \/ \E kind \in {"search", "playlist"} : ListOnly(kind)
    \/ \E o \in ItemOutcomes : Iterate(o)
    \/ Interrupt
    \/ Finish

SpecRun == Init /\ [][NextRun]_vars

-----------------------------------------------------------------------------
(* Reading a manifest text back, line by line.                             *)

Lines(text) == Split(text, "\n")
HasLine(text, line) == \E k \in 1..Len(Lines(text)) : Lines(text)[k] = line

\* The table rows of a manifest: the lines "| <n> | [..." in order.
IsRow(line) == StartsWith(line, "| ") /\ Char(line, 3) \in Digits
RECURSIVE SelectRows(_)
SelectRows(ls) ==
    IF ls = <<>> THEN <<>>
    ELSE (IF IsRow(ls[1]) THEN <<ls[1]>> ELSE <<>>) \o SelectRows(Tail(ls))
RowLines(text) == SelectRows(Lines(text))

\* The file name a row links to: the text between "](./" and ") | [YouTube](".
RowFile(row) ==
    LET a == Find(row, "](./", 1)
        b == Find(row, ") | [YouTube](", 1)
    IN SubSeq(row, a + 4, b - 1)

RowFiles(text) == [k \in 1..Len(RowLines(text)) |-> RowFile(RowLines(text)[k])]

Manifest == dir[IndexName]
\* The manifest on disk is the one the last generate_index call wrote, and no
\* record file changed since.
JustIndexed == last_call # <<>> /\ ~touched /\ HasIndex(dir)

-----------------------------------------------------------------------------
(* C1..C6: the manifest written by generate_index.                         *)

\* C1: after any sequence of generate_index calls, the created_at line of the
\* manifest carries the created_at written by the call that created the manifest.
C1_CreatedAtStable ==
    HasIndex(dir) => HasLine(Manifest, "created_at: \"" \o first_created[1] \o "\"")

C3_SecondCallIdentical ==
    [][(/\ JustIndexed
        /\ JustIndexed'
        /\ last_call'[1].bundle_name = last_call[1].bundle_name
        /\ last_call'[1].query = last_call[1].query
        /\ last_call'[1].source_url = last_call[1].source_url
        /\ last_call'[1].saved = last_call[1].saved)
       => dir'[IndexName] = dir[IndexName]]_vars

\* The entries a call enumerates: the record files of the directory, or the
\* saved_files argument when there are none.
NumRecordFiles == Cardinality(GlobMd(dir) \ {IndexName})
NumEnumerated == IF NumRecordFiles = 0 THEN Len(last_call[1].saved) ELSE NumRecordFiles

\* C4: in the manifest a call wrote, the header count, the "> N transcripts" line
\* and the number of table rows all equal the number of entries the call enumerated.
C4_CountMatchesEntries ==
    JustIndexed =>
        /\ HasLine(Manifest, "count: " \o ToString(NumEnumerated))
        /\ HasLine(Manifest, "> " \o ToString(NumEnumerated) \o " transcripts")
        /\ Len(RowLines(Manifest)) = NumEnumerated

\* C4 witness: a manifest written over two record files.
C4_Witness == JustIndexed /\ NumRecordFiles = 2 /\ Len(RowLines(Manifest)) = 2

\* C5: the rows of every manifest are numbered 1, 2, ... and are in ascending
\* order of the file name they link to.
C5_RowsSortedAndNumbered ==
    HasIndex(dir) =>
        \A k \in 1..Len(RowLines(Manifest)) :
            /\ StartsWith(RowLines(Manifest)[k], "| " \o ToString(k) \o " | [")
            /\ k > 1 => StrLess(RowFiles(Manifest)[k - 1], RowFiles(Manifest)[k])

\* C6: the rows are the record files of the directory, all of them and nothing
\* else, whenever there is at least one; they are the saved_files argument only
\* when the directory holds no record file.
C6_ScanElseSaved ==
    JustIndexed =>
        RowFiles(Manifest) =
            IF NumRecordFiles > 0 THEN SortedNames(GlobMd(dir) \ {IndexName})
            ELSE [k \in 1..Len(last_call[1].saved) |-> last_call[1].saved[k].name]

\* C6 witness: a call given a non-empty saved_files over a directory with a record file.
C6_Witness == JustIndexed /\ NumRecordFiles > 0 /\ last_call[1].saved # <<>>

-----------------------------------------------------------------------------
(* C7..C10: the loop of a batch, search or playlist run and its ending.    *)

\* The loop ran to its end: the run returned from the code after the loop.
LoopEnded == pc = "done" /\ videos # <<>> /\ exit_code # 130

\* The video id an identifier of the run stands for.
ResolvedId(video_arg) ==
    IF run.kind = "batch" THEN ExtractVideoId(video_arg) ELSE Some(video_arg)

\* The attempted items the world let through, in the order of the attempts.
OkAttempts == SelectSeq(attempts, LAMBDA a : a.ok)

\* C7: the loop attempts the identifiers one by one in input order, each once,
\* whatever failed before; when the loop has ended every identifier was
\* attempted; and every attempted item whose identifier resolves and whose
\* metadata, transcript and file write succeed is saved, in order, whatever
\* happened to the items before it.
C7_FailureNeverStopsLoop ==
    /\ Len(attempts) = i
    /\ i <= Len(videos)
    /\ \A k \in 1..Len(attempts) : attempts[k].arg = videos[k]
    /\ LoopEnded => i = Len(videos)
    /\ Len(saved_files) = Len(OkAttempts)
    /\ \A k \in 1..Len(saved_files) :
          Some(saved_files[k].video_id) = ResolvedId(OkAttempts[k].arg)

\* C7 witness: a batch run of two identifiers ended; the first failed, the second
\* was saved.
C7_Witness ==
    /\ LoopEnded
    /\ run.kind = "batch"
    /\ Len(attempts) = 2
    /\ ~attempts[1].ok
    /\ attempts[2].ok
    /\ Len(saved_files) = 1

\* The json_files records with a given status, in order.
WithStatus(st) == SelectSeq(json_files, LAMBDA f : f.status = st)

\* C8: when the batch loop has ended, json_files holds one record per input
\* identifier, in input order: a saved record carries the identifier's video id
\* and a path, a skipped record carries the identifier and a non-empty reason;
\* the saved records are the saved_files in order; saved plus skipped is the
\* number of identifiers, and the totals a JSON mode prints say the same.
C8_EveryIdRecordedOnce ==
    (LoopEnded /\ run.kind = "batch") =>
        /\ Len(json_files) = Len(videos)
        /\ \A k \in 1..Len(json_files) :
              \/ /\ json_files[k].status = "saved"
                 /\ Some(json_files[k].video_id) = ExtractVideoId(videos[k])
                 /\ Truthy(json_files[k].path)
              \/ /\ json_files[k].status = "skipped"
                 /\ json_files[k].video_id = videos[k]
                 /\ Truthy(json_files[k].error)
        /\ Len(WithStatus("saved")) = Len(saved_files)
        /\ \A k \in 1..Len(saved_files) :
              WithStatus("saved")[k].path = Some(saved_files[k].name)
        /\ Len(WithStatus("saved")) + Len(WithStatus("skipped")) = Len(videos)
        /\ run.mode \in {"json", "jsonl"} =>
              /\ events # <<>>
              /\ events[Len(events)].total_saved = Len(WithStatus("saved"))
              /\ events[Len(events)].total_skipped = Len(WithStatus("skipped"))

\* C8 witness: a --json batch run of two identifiers ended with the first skipped
\* and the second saved.
C8_Witness ==
    /\ LoopEnded
    /\ run.kind = "batch"
    /\ run.mode = "json"
    /\ Len(json_files) = 2
    /\ json_files[1].status = "skipped"
    /\ json_files[2].status = "saved"

\* C9: a run whose loop ended with nothing saved returns a non-zero exit code,
\* and a run whose loop ended with something saved returns 0, in every output mode.
C9_ZeroSavedFails ==
    LoopEnded => ((saved_files = <<>>) <=> (exit_code # 0))

\* The file names in the table of the manifest.
ListedFiles ==
    UNION { {RowFile(rows[k]) : k \in 1..Len(rows)} : rows \in {RowLines(Manifest)} }

\* C10: a run whose loop ended with at least one item saved made one
\* generate_index call, after its last record file was written and with its
\* saved_files; the directory holds that manifest and the table lists every file
\* the run saved.
C10_ManifestWhenSaved ==
    (LoopEnded /\ saved_files # <<>>) =>
        /\ index_calls = 1
        /\ JustIndexed
        /\ last_call[1].saved = saved_files
        /\ \A k \in 1..Len(saved_files) : saved_files[k].name \in ListedFiles

\* C10 witness: a run of two items ended with one saved and one skipped, in a
\* directory that already held a manifest.
C10_Witness ==
    /\ LoopEnded
    /\ Len(videos) = 2
    /\ Len(saved_files) = 1
    /\ last_call # <<>>
    /\ last_call[1].existing # <<>>
    /\ index_calls = 1

-----------------------------------------------------------------------------
(* C11..C20: write failures, interrupted runs and the pure functions.      *)

\* The items of the batch run whose record file could not be written.
WriteFailures == {k \in 1..Len(json_files) : json_files[k].error = Some(WriteError)}

\* C11: in a batch run, a failure to write one item's record file ends the loop:
\* no item after it is attempted.
C11_WriteFailureFatal ==
    \A k \in WriteFailures : Len(attempts) = k

\* After a run was interrupted, a caller invokes generate_index on the directory.
Regenerate(saved) ==
    /\ pc = "done"
    /\ exit_code = 130
    /\ IndexStep(run.bundle, run.query, saved, run.url)
    /\ pc' = "regenerated"
    /\ UNCHANGED <<fnVars, clock, run, videos, i, attempts, saved_files, json_files, events,
                   exit_code, index_calls, bundle_dirs>>

\* Batch runs that the user interrupts, and the generate_index call that follows.
NextResume ==
    \/ Tick
    \/ GenerateIndexCall("b", "q", <<>>, None)
    \/ \E vs \in SeqsUpTo(VideoArgs, MaxVideos) : StartBatch(vs, "human")
    \/ \E o \in ItemOutcomes : Iterate(o)
    \/ Interrupt
    \/ \E s \in SavedLists : Regenerate(s)

SpecResume == Init /\ [][NextResume]_vars

\* The record files of the directory, in the order of the scan.
PresentFiles == SortedNames(GlobMd(dir) \ {IndexName})

\* C12 as stated: after an interrupted run, generate_index with any saved_files
\* writes a manifest whose rows are exactly the record files of the directory.
C12_ListsExactlyPresentFiles ==
    pc = "regenerated" => RowFiles(Manifest) = PresentFiles

\* C12 amended: after an interrupted run the files it saved are in the directory,
\* and generate_index writes a manifest whose rows are exactly the record files
\* of the directory, provided the run had written at least one record file or
\* the saved_files argument is empty.
C12_RegenerableAfterInterrupt ==
    /\ (pc = "done" /\ exit_code = 130) =>
          \A k \in 1..Len(saved_files) : saved_files[k].name \in DOMAIN dir
    /\ pc = "regenerated" =>
          /\ \A k \in 1..Len(saved_files) : saved_files[k].name \in DOMAIN dir
          /\ (NumRecordFiles > 0 \/ last_call[1].saved = <<>>) =>
                RowFiles(Manifest) = PresentFiles

\* C12 witness: a run of two items was interrupted after one record file was
\* written, and generate_index was then called with a non-empty saved_files.
C12_Witness ==
    /\ pc = "regenerated"
    /\ Len(videos) = 2
    /\ i = 1
    /\ Len(saved_files) = 1
    /\ last_call[1].saved # <<>>
    /\ Len(RowFiles(Manifest)) = 1

-----------------------------------------------------------------------------
(* cli.py: parse_selection.                                                *)

\* str.lower() over the ASCII letters.
RECURSIVE Lower(_)
Lower(s) ==
    IF Len(s) = 0 THEN ""
    ELSE (IF Char(s, 1) \in UpperChars
          THEN Char("abcdefghijklmnopqrstuvwxyz",
                    Find("ABCDEFGHIJKLMNOPQRSTUVWXYZ", Char(s, 1), 1))
          ELSE Char(s, 1))
         \o Lower(SubSeq(s, 2, Len(s)))

\* The value of a run of decimal digits in which int() lets "_" separate digits.
RECURSIVE DecValue(_)
DecValue(s) ==
    IF Len(s) = 0 THEN 0
    ELSE IF Char(s, Len(s)) = "_" THEN DecValue(SubSeq(s, 1, Len(s) - 1))
    ELSE 10 * DecValue(SubSeq(s, 1, Len(s) - 1))
         + (Find("0123456789", Char(s, Len(s)), 1) - 1)

\* The digits of an int() literal: digits with single underscores between them.
IsDigitRun(s) ==
    /\ Len(s) > 0
    /\ \A k \in 1..Len(s) : Char(s, k) \in Digits \cup {"_"}
    /\ Char(s, 1) # "_"
    /\ Char(s, Len(s)) # "_"
    /\ Find(s, "__", 1) = 0

\* int(s) on a str: <<n>>, or <<>> when it raises ValueError.  Surrounding
\* whitespace and one leading sign are accepted.
PyInt(s) ==
    CHOOSE r \in { IF Len(t) > 0 /\ Char(t, 1) \in {"+", "-"}
                   THEN (IF ~IsDigitRun(SubSeq(t, 2, Len(t))) THEN <<>>
                         ELSE IF Char(t, 1) = "-"
                         THEN << 0 - DecValue(SubSeq(t, 2, Len(t))) >>
                         ELSE << DecValue(SubSeq(t, 2, Len(t))) >>)
                   ELSE (IF ~IsDigitRun(t) THEN <<>> ELSE << DecValue(t) >>) :
                   t \in {Strip(s)} } : TRUE

\* range(lo, hi + 1) as a list.
RangeList(lo, hi) == [k \in 1..(hi - lo + 1) |-> lo + k - 1]

\* A loop pass without the bounds checks: only int() can fail.
ParsePartUnchecked(part, max_val) ==
    CHOOSE r \in {
        IF Find(p, "-", 1) # 0
        THEN CHOOSE q \in { IF lo = <<>> \/ hi = <<>> THEN <<>>
                            ELSE << RangeList(lo[1], hi[1]) >> :
                            lo \in {PyInt(SplitMax(p, "-", 1)[1])},
                            hi \in {PyInt(SplitMax(p, "-", 1)[2])} } : TRUE
        ELSE CHOOSE q \in { IF val = <<>> THEN <<>> ELSE << <<val[1]>> >> :
                            val \in {PyInt(p)} } : TRUE :
        p \in {Strip(part)} } : TRUE

\* One pass of the loop over input_str.split(","): <<indices>> for the part, or
\* <<>> when int() or a bounds check raises ValueError.
ParsePart(part, max_val) ==
    CHOOSE r \in {
        IF Find(p, "-", 1) # 0
        THEN CHOOSE q \in { IF lo = <<>> \/ hi = <<>> THEN <<>>
                            ELSE IF lo[1] < 1 \/ hi[1] > max_val \/ lo[1] > hi[1] THEN <<>>
                            ELSE << RangeList(lo[1], hi[1]) >> :
                            lo \in {PyInt(SplitMax(p, "-", 1)[1])},
                            hi \in {PyInt(SplitMax(p, "-", 1)[2])} } : TRUE
        ELSE CHOOSE q \in { IF val = <<>> THEN <<>>
                            ELSE IF val[1] < 1 \/ val[1] > max_val THEN <<>>
                            ELSE << <<val[1]>> >> :
                            val \in {PyInt(p)} } : TRUE :
        p \in {Strip(part)} } : TRUE

\* The loop over the parts: <<indices>>, or <<>> at the first part that raises.
RECURSIVE ParseParts(_, _, _)
ParseParts(parts, max_val, indices) ==
    IF parts = <<>> THEN <<indices>>
    ELSE CHOOSE r \in { IF one = <<>> THEN <<>>
                        ELSE ParseParts(Tail(parts), max_val, indices \o one[1]) :
                        one \in {ParsePart(parts[1], max_val)} } : TRUE

\* A parse_selection that returns the indices as collected.
UniqueKeepAll(indices, unique) == indices

\* "Deduplicate while preserving order".
RECURSIVE Unique(_, _)
Unique(indices, unique) ==
    IF indices = <<>> THEN unique
    ELSE Unique(Tail(indices),
                IF \E k \in 1..Len(unique) : unique[k] = indices[1]
                THEN unique ELSE Append(unique, indices[1]))

\* parse_selection: <<list>>, or <<>> when it raises ValueError.
ParseSelection(input_str, max_val) ==
    CHOOSE r \in { IF t = "" THEN <<>>
                   ELSE IF t = "all" THEN << RangeList(1, max_val) >>
                   ELSE CHOOSE q \in { IF got = <<>> THEN <<>>
                                       ELSE << Unique(got[1], <<>>) >> :
                                       got \in {ParseParts(Split(t, ","), max_val, <<>>)} } :
                            TRUE :
                   t \in {Lower(Strip(input_str))} } : TRUE

\* Tokens a user may type, each with what it denotes: an integer n (lo = hi = n),
\* a range lo-hi, the word all, or nothing a selection may contain.
Tok(text, kind, lo, hi) == [text |-> text, kind |-> kind, lo |-> lo, hi |-> hi]
SelectionTokens ==
    { Tok("1", "int", 1, 1), Tok("3", "int", 3, 3), Tok("0", "int", 0, 0),
      Tok("5", "int", 5, 5), Tok(" 2 ", "int", 2, 2), Tok("+2", "int", 2, 2),
      Tok("0_1", "int", 1, 1),
      Tok("1-2", "range", 1, 2), Tok("2-3", "range", 2, 3), Tok("3-1", "range", 3, 1),
      Tok("0-2", "range", 0, 2), Tok("2-5", "range", 2, 5), Tok(" 1 - 3 ", "range", 1, 3),
      Tok("all", "all", 0, 0), Tok("All ", "all", 0, 0),
      Tok("1-", "junk", 0, 0), Tok("1-2-3", "junk", 0, 0), Tok("x", "junk", 0, 0),
      Tok("", "junk", 0, 0), Tok(" ", "junk", 0, 0) }

\* The text typed for a sequence of tokens.
TokenText(tokens) == Join([k \in 1..Len(tokens) |-> tokens[k].text], ",")

\* The parse_selection calls of the model.
SelectionCalls ==
    { [fn |-> "parse_selection", tokens |-> ts, input_str |-> TokenText(ts), max_val |-> m] :
        ts \in SeqsUpTo(SelectionTokens, MaxTokens), m \in 1..MaxResults }

InitSelect == InitProgram /\ call \in SelectionCalls /\ result = NoCall

\* selected = parse_selection(raw, len(results))
CallParseSelection ==
    /\ call.fn = "parse_selection"
    /\ result = NoCall
    /\ result' = [fn |-> "parse_selection",
                  value |-> ParseSelection(call.input_str, call.max_val)]
    /\ UNCHANGED <<dir, clock, first_created, last_call, touched, runVars, call>>

NextSelect == CallParseSelection

SpecSelect == InitSelect /\ [][NextSelect]_vars

\* What the grammar says of a token sequence: it is the single word all, or every
\* token is an integer in 1..max or a range with 1 <= lo <= hi <= max.
IsAll(tokens) == Len(tokens) = 1 /\ tokens[1].kind = "all"
TokenValid(t, max_val) ==
    /\ t.kind \in {"int", "range"}
    /\ 1 <= t.lo
    /\ t.lo <= t.hi
    /\ t.hi <= max_val
SelectionValid(tokens, max_val) ==
    IsAll(tokens) \/ \A k \in 1..Len(tokens) : TokenValid(tokens[k], max_val)

\* The concatenation of the tokens' expansions.
RECURSIVE Expansion(_)
Expansion(tokens) ==
    IF tokens = <<>> THEN <<>>
    ELSE [k \in 1..(tokens[1].hi - tokens[1].lo + 1) |-> tokens[1].lo + k - 1]
         \o Expansion(Tail(tokens))

\* e is the list l with later duplicates removed.
IsFirstOccurrences(e, l) ==
    /\ \A a, b \in 1..Len(e) : a # b => e[a] # e[b]
    /\ {e[k] : k \in 1..Len(e)} = {l[k] : k \in 1..Len(l)}
    /\ \A a, b \in 1..Len(e) :
          a < b => Min({k \in 1..Len(l) : l[k] = e[a]}) < Min({k \in 1..Len(l) : l[k] = e[b]})

ParseSelectionReturned == result # NoCall /\ result.fn = "parse_selection"

\* C13: for a valid selection parse_selection returns a list: 1..max for the word
\* all, else the concatenation of the tokens' expansions with later duplicates
\* removed; every element is in 1..max and none occurs twice.
C13_SelectionExpands ==
    (ParseSelectionReturned /\ SelectionValid(call.tokens, call.max_val)) =>
        /\ result.value # <<>>
        /\ \A k \in 1..Len(result.value[1]) : result.value[1][k] \in 1..call.max_val
        /\ IF IsAll(call.tokens)
           THEN result.value[1] = [k \in 1..call.max_val |-> k]
           ELSE IsFirstOccurrences(result.value[1], Expansion(call.tokens))

\* C13 witness: a list of two overlapping valid tokens was parsed, and the result
\* is shorter than the concatenation of the expansions.
C13_Witness ==
    /\ ParseSelectionReturned
    /\ Len(call.tokens) = 2
    /\ SelectionValid(call.tokens, call.max_val)
    /\ result.value # <<>>
    /\ Len(result.value[1]) < Len(Expansion(call.tokens))
    /\ result.value[1][1] > result.value[1][Len(result.value[1])]

\* C14: for a selection that is not valid (the empty or blank input, an integer
\* or range out of bounds, an inverted or malformed range, a token that is
\* neither, the word all inside a longer list) parse_selection raises ValueError.
C14_InvalidSelectionRaises ==
    (ParseSelectionReturned /\ ~SelectionValid(call.tokens, call.max_val)) =>
        result.value = <<>>

\* C14 witness: a list of one valid and one invalid token was rejected.
C14_Witness ==
    /\ ParseSelectionReturned
    /\ Len(call.tokens) = 2
    /\ \E a, b \in 1..2 : /\ TokenValid(call.tokens[a], call.max_val)
                            /\ ~TokenValid(call.tokens[b], call.max_val)
    /\ result.value = <<>>

-----------------------------------------------------------------------------
(* bundle.py: slugify.                                                     *)

\* re.sub(r"[^a-z0-9]+", "_", slug): every maximal run of other characters becomes
\* one "_"; in_run says the previous character was part of such a run.
RECURSIVE SubRuns(_, _)
SubRuns(slug, in_run) ==
    IF Len(slug) = 0 THEN ""
    ELSE IF Char(slug, 1) \in LowerChars \cup Digits
    THEN Char(slug, 1) \o SubRuns(SubSeq(slug, 2, Len(slug)), FALSE)
    ELSE (IF in_run THEN "" ELSE "_") \o SubRuns(SubSeq(slug, 2, Len(slug)), TRUE)

\* slug[:60]
SlugMax == 60

\* slugify
Slugify(text) ==
    CHOOSE r \in { SubSeq(slug, 1, IF Len(slug) < SlugMax THEN Len(slug) ELSE SlugMax) :
                   slug \in {StripSet(SubRuns(Lower(text), FALSE), {"_"})} } : TRUE

\* n copies of the character c.
RECURSIVE Rep(_, _)
Rep(c, n) == IF n = 0 THEN "" ELSE c \o Rep(c, n - 1)

\* The texts of length at most n over the characters of alphabet.
RECURSIVE TextsUpTo(_, _)
TextsUpTo(alphabet, n) ==
    IF n = 0 THEN {""}
    ELSE TextsUpTo(alphabet, n - 1)
         \cup {t \o c : t \in TextsUpTo(alphabet, n - 1), c \in alphabet}

\* The slugify calls of the model: short texts, and texts whose slug is about
\* SlugMax characters long.
SlugCalls ==
    { [fn |-> "slugify", text |-> Rep("a", n) \o tail] :
        n \in {0} \cup ((SlugMax - 3)..SlugMax),
        tail \in TextsUpTo({"a", "B", "7", " ", "_", "-"}, MaxTail) }

InitSlug == InitProgram /\ call \in SlugCalls /\ result = NoCall

\* auto_slug = args.bundle or slugify(args.query)
CallSlugify ==
    /\ call.fn = "slugify"
    /\ result = NoCall
    /\ result' = [fn |-> "slugify", value |-> Slugify(call.text)]
    /\ UNCHANGED <<dir, clock, first_created, last_call, touched, runVars, call>>

NextSlug == CallSlugify

SpecSlug == InitSlug /\ [][NextSlug]_vars

SlugifyReturned == result # NoCall /\ result.fn = "slugify"

\* C15: slugify returns a text over a-z, 0-9 and "_" that neither starts nor ends
\* with "_", has no two adjacent "_" and is at most 60 characters long; the
\* empty text gives the empty text.
C15_SlugShape ==
    SlugifyReturned =>
        /\ \A k \in 1..Len(result.value) :
              Char(result.value, k) \in LowerChars \cup Digits \cup {"_"}
        /\ ~StartsWith(result.value, "_")
        /\ ~EndsWith(result.value, "_")
        /\ Find(result.value, "__", 1) = 0
        /\ Len(result.value) <= SlugMax
        /\ call.text = "" => result.value = ""

-----------------------------------------------------------------------------
(* C16: the manifest and the entries.                                      *)

\* The file names read_bundle_entries returns for the directory.
ScannedNames ==
    UNION { {es[k].name : k \in 1..Len(es)} : es \in {ReadBundleEntries(dir)} }

\* The states in which generate_index can be called next: outside a run, and in
\* a run when the loop has ended.
ScanPoint == pc = "idle" \/ (pc = "loop" /\ i = Len(videos))

\* C16: with a manifest in the directory, the read_bundle_entries of a
\* generate_index call does not return it and the manifest text holds no link to
\* it; no file saved by the loop is named _index.md, and an iteration of the
\* loop leaves the manifest text as it was.
C16_ManifestNeverEntry ==
    /\ []((HasIndex(dir) /\ ScanPoint) => IndexName \notin ScannedNames)
    /\ [](HasIndex(dir) => Find(Manifest, "](./_index.md)", 1) = 0)
    /\ [](\A k \in 1..Len(saved_files) : saved_files[k].name # IndexName)
    /\ [][(HasIndex(dir) /\ pc = "loop" /\ pc' = "loop") =>
            dir'[IndexName] = dir[IndexName]]_vars

\* C16 witness: a run saved a record file into a directory that already held a
\* manifest, and its generate_index call scanned that directory.
C16_Witness ==
    /\ LoopEnded
    /\ run.kind = "batch"
    /\ saved_files # <<>>
    /\ JustIndexed
    /\ last_call[1].existing # <<>>
    /\ Len(RowLines(Manifest)) >= 1

-----------------------------------------------------------------------------
(* bundle.py: _parse_frontmatter called on its own.                        *)

\* Header lines, each with what it says: sep, whether the line holds ": " when
\* another line follows it; sep_last, whether it still does as the last line of
\* the section (the section is stripped before it is split into lines); the key;
\* and val, the value with one layer of surrounding quotes removed.
HeaderLine(text, sep, sep_last, key, val) ==
    [text |-> text, sep |-> sep, sep_last |-> sep_last, key |-> key, val |-> val]
HeaderLines ==
    { HeaderLine("a: 1", TRUE, TRUE, "a", "1"),
      HeaderLine("a: 'v'", TRUE, TRUE, "a", "v"),
      HeaderLine(" c : \"q\" ", TRUE, TRUE, "c", "q"),
      HeaderLine("t: x: y", TRUE, TRUE, "t", "x: y"),
      HeaderLine("k: ", TRUE, FALSE, "k", ""),
      HeaderLine("q: \"'x'\"", TRUE, TRUE, "q", "'x'"),
      HeaderLine("b", FALSE, FALSE, "", ""),
      HeaderLine("a:3", FALSE, FALSE, "", ""),
      HeaderLine("", FALSE, FALSE, "", "") }

\* Text before the first delimiter and after the second one.
TextBefore == {"", "z: 9\n"}
TextAfter == {"", "\nz: 9\n---\n"}

\* The text of a file with the given number of "---" delimiters around the lines.
FileText(before, lines, after, delimiters) ==
    LET body == "\n" \o Join([k \in 1..Len(lines) |-> lines[k].text], "\n") \o "\n"
    IN IF delimiters = 0 THEN before \o body \o after
       ELSE IF delimiters = 1 THEN before \o "---" \o body
       ELSE before \o "---" \o body \o "---" \o after

\* The _parse_frontmatter calls of the model.
FrontmatterCalls ==
    { [fn |-> "_parse_frontmatter", lines |-> ls, delimiters |-> n,
       text |-> FileText(b, ls, IF n = 0 THEN "" ELSE a, n)] :
        ls \in {<<>>} \cup SeqsUpTo(HeaderLines, MaxLines),
        b \in TextBefore, a \in TextAfter, n \in 0..2 }

InitFrontmatter == InitProgram /\ call \in FrontmatterCalls /\ result = NoCall

\* fm = _parse_frontmatter(text)
CallParseFrontmatter ==
    /\ call.fn = "_parse_frontmatter"
    /\ result = NoCall
    /\ result' = [fn |-> "_parse_frontmatter", value |-> ParseFrontmatter(call.text)]
    /\ UNCHANGED <<dir, clock, first_created, last_call, touched, runVars, call>>

NextFrontmatter == CallParseFrontmatter

SpecFrontmatter == InitFrontmatter /\ [][NextFrontmatter]_vars

FrontmatterReturned == result # NoCall /\ result.fn = "_parse_frontmatter"

\* The lines of the section that hold a key: those with ": ", the last non-blank
\* line taken as it is once the section is stripped.
LastLine(lines) ==
    IF \A k \in 1..Len(lines) : lines[k].text = "" THEN 0
    ELSE Max({k \in 1..Len(lines) : lines[k].text # ""})
KeyLines(lines) ==
    {k \in 1..Len(lines) : IF k = LastLine(lines) THEN lines[k].sep_last ELSE lines[k].sep}
\* The last line of the section that holds the key.
LastOf(lines, key) == Max({k \in KeyLines(lines) : lines[k].key = key})

\* A text without its quote characters.
RECURSIVE Unquoted(_)
Unquoted(s) ==
    IF Len(s) = 0 THEN ""
    ELSE (IF Char(s, 1) \in {"\"", "'"} THEN "" ELSE Char(s, 1))
         \o Unquoted(SubSeq(s, 2, Len(s)))

\* C17: _parse_frontmatter returns a mapping for every text: the empty mapping
\* when the text has fewer than two "---" delimiters; otherwise its keys are the
\* keys of the section's lines that hold ": " (nothing from outside the section,
\* nothing from a line without ": "), and each key has the value of the last
\* line that holds it.
C17_FrontmatterTotal ==
    FrontmatterReturned =>
        IF call.delimiters < 2 THEN result.value = EmptyDict
        ELSE /\ DOMAIN result.value = {call.lines[k].key : k \in KeyLines(call.lines)}
             /\ \A key \in DOMAIN result.value :
                   Unquoted(result.value[key])
                     = Unquoted(call.lines[LastOf(call.lines, key)].val)

\* C17 witness: a section with the same key on two lines, between text that
\* holds another key before the first and after the second delimiter.
C17_Witness ==
    /\ FrontmatterReturned
    /\ call.delimiters = 2
    /\ Len(call.lines) = 2
    /\ call.lines[1].text = "a: 1"
    /\ call.lines[2].text = "a: 'v'"
    /\ StartsWith(call.text, "z: 9")
    /\ EndsWith(call.text, "z: 9\n---\n")
    /\ result.value["a"] = "v"

\* C19: the value returned for a key is the value of its last line with one
\* layer of surrounding quotes removed; an inner layer of quotes is kept.
C19_OneQuoteLayer ==
    (FrontmatterReturned /\ call.delimiters = 2) =>
        \A key \in DOMAIN result.value :
            result.value[key] = call.lines[LastOf(call.lines, key)].val

-----------------------------------------------------------------------------
(* C18: the place of the manifest write in a run.                          *)

\* The manifest text, None when there is no manifest.
ManifestText(d) == IF HasIndex(d) THEN Some(d[IndexName]) ELSE None

\* A step of a run that writes the manifest.
ManifestWrite ==
    \/ index_calls' # index_calls
    \/ pc # "idle" /\ ManifestText(dir') # ManifestText(dir)

\* C18: a batch, search or playlist run writes the manifest at most once; the
\* write happens when every item of the run has been attempted, and no record
\* file is written and no item attempted by the run once the manifest is written.
C18_ManifestWrittenLast ==
    /\ [](index_calls <= 1)
    /\ [][ManifestWrite => /\ pc = "loop"
                           /\ index_calls = 0
                           /\ i = Len(videos)
                           /\ Len(attempts) = Len(videos)
                           /\ pc' = "done"]_vars
    /\ [][index_calls >= 1 => /\ RecordFiles(dir') = RecordFiles(dir)
                              /\ attempts' = attempts
                              /\ saved_files' = saved_files]_vars

\* C18 witness: a playlist run of two items, one saved and one failed, has
\* ended with its manifest written.
C18_Witness ==
    /\ pc = "done"
    /\ run.kind = "playlist"
    /\ index_calls = 1
    /\ Len(videos) = 2
    /\ Len(attempts) = 2
    /\ Len(saved_files) = 1
    /\ JustIndexed

-----------------------------------------------------------------------------
(* bundle.py: read_bundle_entries called on its own.                       *)

\* Files of a directory, each with what it holds: its place in the ascending
\* order of file names, whether it is a record file (.md, not the manifest), and
\* the title and video id its frontmatter gives (None without one).
ScanFile(name, place, record, title, video_id, text) ==
    [name |-> name, place |-> place, record |-> record, title |-> title,
     video_id |-> video_id, text |-> text]
ScanFiles ==
    { ScanFile("B.md", 1, TRUE, None, None, "notes"),
      ScanFile("_index.md", 2, FALSE, Some("I"), Some("i"),
               "---\ntitle: I\nvideo_id: i\nbundle: b\n---\n# b\n"),
      ScanFile("a.md", 3, TRUE, Some("A"), Some("x"),
               "---\ntitle: \"A\"\nvideo_id: \"x\"\n---\nbody"),
      ScanFile("c.md", 4, TRUE, None, Some("y"), "---\nvideo_id: 'y'\n---\n"),
      ScanFile("d.md", 5, TRUE, Some("Dee"), None, "---\ntitle: Dee\n---\ntext"),
      ScanFile("e.md", 6, TRUE, None, None, ""),
      ScanFile("n.txt", 7, FALSE, Some("N"), Some("n"),
               "---\ntitle: N\nvideo_id: n\n---\n") }

ScanFileOf(name) == CHOOSE f \in ScanFiles : f.name = name

\* The directory that holds the given files.
DirOf(files) == [n \in {f.name : f \in files} |-> ScanFileOf(n).text]

InitScan ==
    /\ dir \in {DirOf(files) : files \in SUBSET ScanFiles}
    /\ clock = 0
    /\ first_created = None
    /\ last_call = <<>>
    /\ touched = FALSE
    /\ pc = "idle"
    /\ run = NoRun
    /\ videos = <<>>
    /\ i = 0
    /\ attempts = <<>>
    /\ saved_files = <<>>
    /\ json_files = <<>>
    /\ events = <<>>
    /\ exit_code = -1
    /\ index_calls = 0
    /\ bundle_dirs = <<>>
    /\ call = [fn |-> "read_bundle_entries"]
    /\ result = NoCall

\* existing = read_bundle_entries(bundle_dir)
CallReadBundleEntries ==
    /\ call.fn = "read_bundle_entries"
    /\ result = NoCall
    /\ result' = [fn |-> "read_bundle_entries", value |-> ReadBundleEntries(dir)]
    /\ UNCHANGED <<dir, clock, first_created, last_call, touched, runVars, call>>

NextScan == CallReadBundleEntries

SpecScan == InitScan /\ [][NextScan]_vars

ScanReturned == result # NoCall /\ result.fn = "read_bundle_entries"

\* C20: read_bundle_entries returns one entry per .md file of the directory
\* other than _index.md, in ascending order of file name; the title of an entry
\* is the frontmatter title, or the file name's stem without one, and its video
\* id is the frontmatter video_id, or "" without one. A file without
\* frontmatter gets an entry like any other.
C20_OneEntryPerRecordFile ==
    ScanReturned =>
        \A es \in {result.value} :
            /\ {es[k].name : k \in 1..Len(es)}
                 = {n \in DOMAIN dir : ScanFileOf(n).record}
            /\ \A k \in 1..Len(es) - 1 :
                  ScanFileOf(es[k].name).place < ScanFileOf(es[k + 1].name).place
            /\ \A k \in 1..Len(es) : \A f \in {ScanFileOf(es[k].name)} :
                  /\ es[k].title = IF f.title = None
                                   THEN SubSeq(f.name, 1, Len(f.name) - 3)
                                   ELSE f.title[1]
                  /\ es[k].video_id = IF f.video_id = None THEN "" ELSE f.video_id[1]

\* C20 witness: the scan of a directory that holds the manifest, a file that is
\* not .md, a file without frontmatter and files with and without a title.
C20_Witness ==
    /\ ScanReturned
    /\ DOMAIN dir = {"B.md", "_index.md", "a.md", "c.md", "n.txt"}
    /\ Len(result.value) = 3
    /\ result.value[1] = Entry("B", "", "B.md")
    /\ result.value[3] = Entry("c", "y", "c.md")

-----------------------------------------------------------------------------
(* C24: the events of a --jsonl batch run.                                 *)

\* A --jsonl batch run has reached its loop.
JsonlRun == run.kind = "batch" /\ run.mode = "jsonl" /\ pc \in {"loop", "done"}

\* C24: a --jsonl batch run that reached the loop has emitted one start event
\* first, then one progress event per identifier attempted so far, in input order
\* (the k-th with index k, the k-th identifier and status saved or skipped); when
\* the loop has ended every identifier has its progress event and one complete
\* event is last, whose total_saved plus total_skipped is the start event's total.
C24_JsonlEventOrder ==
    JsonlRun =>
        /\ Len(events) = 1 + Len(attempts) + (IF LoopEnded THEN 1 ELSE 0)
        /\ events[1] = [event |-> "start", total |-> Len(videos)]
        /\ \A k \in 1..Len(attempts) :
              /\ events[k + 1].event = "progress"
              /\ events[k + 1].index = k
              /\ events[k + 1].status \in {"saved", "skipped"}
              /\ events[k + 1].status = "saved" <=> attempts[k].ok
              /\ IF attempts[k].ok
                 THEN Some(events[k + 1].video_id) = ResolvedId(videos[k])
                 ELSE events[k + 1].video_id = videos[k]
        /\ LoopEnded =>
              /\ Len(attempts) = Len(videos)
              /\ events[Len(events)].event = "complete"
              /\ events[Len(events)].total_saved + events[Len(events)].total_skipped
                   = events[1].total

\* C24 witness: a --jsonl run of two identifiers ended, the first skipped and the
\* second saved.
C24_Witness ==
    /\ JsonlRun
    /\ LoopEnded
    /\ Len(events) = 4
    /\ events[2].status = "skipped"
    /\ events[3].status = "saved"
    /\ events[4] = [event |-> "complete", total_saved |-> 1, total_skipped |-> 1]

-----------------------------------------------------------------------------
(* C23: runs whose identifiers can name one video more than once.          *)

\* Identifiers of a batch run: one video as a URL and as a bare id, and another video.
RepeatArgs == {"https://youtu.be/abcdefghijk", "abcdefghijk", "dQw4w9WgXcQ"}

\* What the world does to an item of these runs: it is saved, or it has no transcript.
RepeatOutcomes == {o \in ItemOutcomes : o.ytdlp /\ o.write}

\* Runs into a directory without record files, with or without a manifest.
NextRepeat ==
    \/ GenerateIndexCall("b", "q", <<>>, None)
    \/ \E vs \in SeqsUpTo(RepeatArgs, MaxVideos), mode \in {"human", "json"} :
          StartBatch(vs, mode)
    \/ \E ids \in SeqsUpTo({"abcdefghijk", "dQw4w9WgXcQ"}, MaxVideos) :
          StartInteractive("search", ids)
    \/ \E o \in RepeatOutcomes : Iterate(o)
    \/ Finish

SpecRepeat == Init /\ [][NextRepeat]_vars

\* The file names of the saved list.
SavedNames == {saved_files[k].name : k \in 1..Len(saved_files)}

\* C23: when the loop of a run into a directory without record files has ended
\* with at least one item saved, the manifest has one row per distinct file name
\* of the saved list and no other row, and its count is the number of distinct
\* saved file names, which is at most the number of saved items.
C23_RowsAreDistinctSaved ==
    (LoopEnded /\ saved_files # <<>>) =>
        \A rows \in {RowFiles(Manifest)} :
            /\ {rows[k] : k \in 1..Len(rows)} = SavedNames
            /\ Len(rows) = Cardinality(SavedNames)
            /\ HasLine(Manifest, "count: " \o ToString(Cardinality(SavedNames)))
            /\ Cardinality(SavedNames) <= Len(saved_files)

\* C23 witness: a --json batch run given one video as a URL and as a bare id
\* reports two saved items and its manifest has one row.
C23_Witness ==
    /\ LoopEnded
    /\ run.mode = "json"
    /\ videos = <<"https://youtu.be/abcdefghijk", "abcdefghijk">>
    /\ events[Len(events)].total_saved = 2
    /\ Len(RowFiles(Manifest)) = 1
    /\ HasLine(Manifest, "count: 1")

-----------------------------------------------------------------------------
(* C25: what generate_index leaves alone.                                  *)

\* A step in which generate_index is called or the manifest changes.
GenerateIndexStep ==
    \/ last_call' # last_call
    \/ index_calls' # index_calls
    \/ ManifestText(dir') # ManifestText(dir)

\* C25: a step in which generate_index is called or the manifest changes leaves
\* every record file of the directory as it was (none created, modified or
\* deleted) and leaves a manifest in the directory; and no step of a run that has
\* saved nothing calls generate_index or changes the manifest.
C25_OnlyManifestChanges ==
    /\ [][GenerateIndexStep => (RecordFiles(dir') = RecordFiles(dir) /\ HasIndex(dir'))]_vars
    /\ [][(run'.kind # "none" /\ saved_files' = <<>>) => ~GenerateIndexStep]_vars

\* C25 witness: a batch run of two identifiers ended with nothing saved, in a
\* directory whose manifest an earlier generate_index call wrote.
C25_Witness ==
    /\ LoopEnded
    /\ run.kind = "batch"
    /\ Len(attempts) = 2
    /\ saved_files = <<>>
    /\ index_calls = 0
    /\ JustIndexed

-----------------------------------------------------------------------------
(* metadata.py: fetch_metadata called on its own, provider by provider.    *)

\* An exception: its class and its message.
Raised(type, msg) == [type |-> type, msg |-> msg]

\* What fetch_metadata_ytdlp can raise: MetadataFetchError without yt-dlp or on a
\* failed extraction; another exception when extract_info returns None.
YtdlpErrors ==
    { Raised("MetadataFetchError", "yt-dlp is not installed. Install with: pip install yt-dlp"),
      Raised("MetadataFetchError", "yt-dlp extraction failed: unavailable"),
      Raised("AttributeError", "'NoneType' object has no attribute 'get'") }

\* What fetch_metadata_oembed can raise: MetadataFetchError on a failed request,
\* another exception when the body is not JSON.
OembedErrors ==
    { Raised("MetadataFetchError", MetadataError),
      Raised("JSONDecodeError", "Expecting value: line 1 column 1 (char 0)") }

FetchIds == ResultIds \cup {"abcdefghijk", "a1B2c3D4e5F"}

\* The fetch_metadata calls of the model: the arguments, and what each provider
\* does when it is called (None: it answers).
FetchCalls ==
    { [fn |-> "fetch_metadata", video_id |-> v, enrich |-> e, ytdlp |-> y, oembed |-> o] :
        v \in FetchIds, e \in BOOLEAN,
        y \in {None} \cup {Some(x) : x \in YtdlpErrors},
        o \in {None} \cup {Some(x) : x \in OembedErrors} }

InitFetch == InitProgram /\ call \in FetchCalls /\ result = NoCall

\* An except clause that catches every exception.
CaughtAll(error) == TRUE

\* `except MetadataFetchError:`
Caught(error) == error.type = "MetadataFetchError"

\* fetch_metadata at a point of its body: the providers called so far, and the
\* value returned or the exception raised to the caller.
FetchState(pc_, calls, value, error) ==
    [fn |-> "fetch_metadata", pc |-> pc_, calls |-> calls, value |-> value, error |-> error]

\* `if enrich: try: return fetch_metadata_ytdlp(video_id)`
CallYtdlp ==
    /\ call.fn = "fetch_metadata"
    /\ result = NoCall
    /\ call.enrich
    /\ result' = IF call.ytdlp = None
                 THEN FetchState("returned", <<"ytdlp">>, Some(YtdlpMeta(call.video_id)), None)
                 ELSE IF Caught(call.ytdlp[1])
                 THEN FetchState("fallback", <<"ytdlp">>, None, None)
                 ELSE FetchState("raised", <<"ytdlp">>, None, call.ytdlp)
    /\ UNCHANGED <<dir, clock, first_created, last_call, touched, runVars, call>>

\* `return fetch_metadata_oembed(video_id)`
CallOembed ==
    /\ call.fn = "fetch_metadata"
    /\ IF result = NoCall THEN ~call.enrich ELSE result.pc = "fallback"
    /\ \E calls \in {IF result = NoCall THEN <<"oembed">> ELSE Append(result.calls, "oembed")} :
          result' = IF call.oembed = None
                    THEN FetchState("returned", calls, Some(OembedMeta(call.video_id)), None)
                    ELSE FetchState("raised", calls, None, call.oembed)
    /\ UNCHANGED <<dir, clock, first_created, last_call, touched, runVars, call>>

NextFetch == CallYtdlp \/ CallOembed

SpecFetch == InitFetch /\ [][NextFetch]_vars

FetchStarted == result # NoCall /\ result.fn = "fetch_metadata"
FetchEnded == FetchStarted /\ result.pc \in {"returned", "raised"}

\* The provider fails with a metadata error.
MetadataFailure(outcome) == outcome # None /\ outcome[1].type = "MetadataFetchError"

\* C22: with enrich on, fetch_metadata calls the enriched provider first and the
\* basic provider only after the enriched one failed with a metadata error; it
\* returns the first success; when both fail with a metadata error the caller
\* gets the basic provider's error.  With enrich off only the basic provider is
\* called.  The result is the one the loop of a run relies on.
C22_EnrichedThenBasic ==
    FetchStarted =>
        /\ call.enrich => result.calls[1] = "ytdlp"
        /\ ~call.enrich => result.calls = <<"oembed">>
        /\ FetchEnded =>
              /\ result.calls = <<"ytdlp", "oembed">>
                   <=> (call.enrich /\ MetadataFailure(call.ytdlp))
              /\ (call.enrich /\ call.ytdlp = None) =>
                    (result.pc = "returned" /\ result.value = Some(YtdlpMeta(call.video_id)))
              /\ ((~call.enrich \/ MetadataFailure(call.ytdlp)) /\ call.oembed = None) =>
                    (result.pc = "returned" /\ result.value = Some(OembedMeta(call.video_id)))
              /\ ((~call.enrich \/ MetadataFailure(call.ytdlp)) /\ call.oembed # None) =>
                    (result.pc = "raised" /\ result.error = call.oembed)
              /\ (MetadataFailure(call.ytdlp) \/ call.ytdlp = None)
                   /\ (MetadataFailure(call.oembed) \/ call.oembed = None) =>
                    result.value = FetchMetadata(call.video_id, call.enrich,
                                                 call.ytdlp = None, call.oembed = None)

\* C22 witness: with enrich on both providers failed with a metadata error and
\* the caller got the basic provider's error.
C22_Witness ==
    /\ FetchEnded
    /\ call.enrich
    /\ MetadataFailure(call.ytdlp)
    /\ MetadataFailure(call.oembed)
    /\ result.calls = <<"ytdlp", "oembed">>
    /\ result.pc = "raised"
    /\ result.error = Some(Raised("MetadataFetchError", MetadataError))

-----------------------------------------------------------------------------
(* cli.py: the prompts of search_main and playlist_main.                   *)

\* The videos a search or a playlist lists, in the order they are displayed.
Listing == <<"dQw4w9WgXcQ", "abcdefghijk", "a1B2c3D4e5F">>

\* What the user types at the selection prompt.
PromptInputs == {"1", "2", "1-2", "all", " 2,1 ", "0", "x", ""}

\* _display_results after a search or a playlist fetch that listed n videos.
DisplayResults(kind, n) ==
    /\ pc = "idle"
    /\ run' = IF kind = "search"
              THEN [kind |-> kind, mode |-> "human", bundle |-> "b", query |-> "q",
                    url |-> None, results |-> SubSeq(Listing, 1, n)]
              ELSE [kind |-> kind, mode |-> "human", bundle |-> "b", query |-> "PL",
                    url |-> Some("u"), results |-> SubSeq(Listing, 1, n)]
    /\ pc' = "select"
    /\ UNCHANGED <<fnVars, dir, clock, first_created, last_call, touched, videos, i, attempts,
                   saved_files, json_files, events, exit_code, index_calls, bundle_dirs>>

\* A prompt loop that goes on after a selection that raised ValueError.
AfterSelectionAlways(selected) == "name"

\* The prompt loop after parse_selection: `break`, or "Invalid selection ... Try
\* again." and the next turn of `while True`.
AfterSelection(selected) == IF selected = <<>> THEN "select" ELSE "name"

\* raw = input("Select videos ..."); selected = parse_selection(raw, len(results))
SelectInput(raw) ==
    /\ pc = "select"
    /\ call' = [fn |-> "parse_selection", input_str |-> raw, max_val |-> Len(run.results)]
    /\ \E selected \in {ParseSelection(raw, Len(run.results))} :
          /\ result' = [fn |-> "parse_selection", value |-> selected]
          /\ pc' = AfterSelection(selected)
    /\ UNCHANGED <<dir, clock, first_created, last_call, touched, run, videos, i, attempts,
                   saved_files, json_files, events, exit_code, index_calls, bundle_dirs>>

\* KeyboardInterrupt at the selection prompt or at the bundle name prompt:
\* "Aborted.", return 130.
PromptInterrupt ==
    /\ pc \in {"select", "name"}
    /\ pc' = "done"
    /\ exit_code' = 130
    /\ UNCHANGED <<fnVars, dir, clock, first_created, last_call, touched, run, videos, i,
                   attempts, saved_files, json_files, events, index_calls, bundle_dirs>>

\* The bundle name prompt, create_bundle_dir, and the loop over the selection.
NameInput ==
    /\ pc = "name"
    /\ bundle_dirs' = Append(bundle_dirs, run.bundle)
    /\ \E selected \in {IF result.value = <<>> THEN <<>> ELSE result.value[1]} :
          videos' = [k \in 1..Len(selected) |-> run.results[selected[k]]]
    /\ pc' = "loop"
    /\ UNCHANGED <<fnVars, dir, clock, first_created, last_call, touched, run, i, attempts,
                   saved_files, json_files, events, exit_code, index_calls>>

\* An interactive search or playlist run from the listing on.
NextPrompt ==
    \/ \E kind \in {"search", "playlist"}, n \in 1..Min({MaxVideos, Len(Listing)}) :
          DisplayResults(kind, n)
    \/ \E raw \in PromptInputs : SelectInput(raw)
    \/ PromptInterrupt
    \/ NameInput
    \/ \E o \in RepeatOutcomes : Iterate(o)
    \/ Interrupt
    \/ Finish

SpecPrompt == Init /\ [][NextPrompt]_vars

\* parse_selection has accepted the last input of the prompt.
SelectionAccepted ==
    /\ result # NoCall
    /\ result.fn = "parse_selection"
    /\ result.value # <<>>

\* C21: in an interactive search or playlist run, a selection that parse_selection
\* rejects leaves the program at the selection prompt, with no bundle directory
\* created and nothing fetched; a bundle directory exists and an item has been
\* attempted only when parse_selection accepted the last input, the directory
\* first; and a run that ends from the selection prompt returns 130 and has
\* created no directory.
C21_PromptBeforeDirectory ==
    /\ [](pc = "select" => (bundle_dirs = <<>> /\ attempts = <<>> /\ dir = [n \in {} |-> ""]))
    /\ [][(pc = "select" /\ result' # NoCall /\ result'.value = <<>>) =>
            (pc' \in {"select", "done"} /\ bundle_dirs' = <<>> /\ attempts' = <<>>)]_vars
    /\ []((bundle_dirs # <<>> \/ attempts # <<>>) =>
            (SelectionAccepted /\ Len(bundle_dirs) = 1))
    /\ [][(pc = "select" /\ pc' = "done") =>
            (exit_code' = 130 /\ bundle_dirs' = <<>> /\ dir' = dir)]_vars

\* C21 witness: parse_selection accepted " 2,1 " for a playlist of two videos,
\* the directory was created and the first item attempted.
C21_Witness ==
    /\ run.kind = "playlist"
    /\ SelectionAccepted
    /\ Len(run.results) = 2
    /\ call.input_str = " 2,1 "
    /\ bundle_dirs = <<"b">>
    /\ videos = <<"abcdefghijk", "dQw4w9WgXcQ">>
    /\ Len(attempts) = 1

====
